---- MODULE Spec2Model ----
(***************************************************************************)
(* The eight scheduling policies of pa2.c (FCFS, SJF, STCF, RR, Priority,  *)
(* Priority+aging, Priority+PCP, Priority+PIP) as a state machine.         *)
(*                                                                         *)
(* The queues are the intrusive doubly linked lists of the source: every   *)
(* process and every queue head is a node with a next and a prev pointer,  *)
(* and list_add_tail / list_del_init rewrite exactly the pointers the C    *)
(* primitives rewrite.  Queue membership is therefore what a walk along    *)
(* the next pointers finds, and a list_add_tail of a node that is still    *)
(* linked elsewhere corrupts the lists exactly as it does in C.            *)
(*                                                                         *)
(* The tick loop that calls the policies (fork, schedule, acquire, run,    *)
(* release) is not part of pa2.c; it is modelled from the specification.   *)
(***************************************************************************)
EXTENDS Integers, Sequences, FiniteSets

\* ------------------------------------------------------------------ bounds
NPROC == 2          \* processes forked during a run of Spec
MaxProcs == 3       \* size of the process table (the largest workload)
NRES == 2           \* resources the run uses (of NR_RESOURCES)
MaxLifespan == 3    \* lifespans are drawn from 1..MaxLifespan
MAX_PRIO == 2       \* priorities are drawn from 0..MAX_PRIO

Procs == 1..MaxProcs
Res == 1..NRES
NULL == 0

\* C bool
true == 1
false == 0

\* list nodes: the processes' embedded list_head, and the queue heads
readyqueue == 0 - 1
waitqueue(r) == 0 - 1 - r
Heads == {readyqueue} \cup {waitqueue(r) : r \in Res}
Nodes == Procs \cup Heads

Policies == {"fcfs", "sjf", "stcf", "rr", "prio", "pa", "pcp", "pip"}

PROCESS_READY == "READY"
PROCESS_RUNNING == "RUNNING"
PROCESS_BLOCKED == "BLOCKED"

VARIABLES
  sched,      \* the policy selected for the run
  workload,   \* what the run is given: [nproc, res, prios, lifespans],
              \* the number of processes forked, the resources they ask
              \* for, the priorities and the lifespans they are created with
  current,    \* the process running this tick, or NULL
  nforked,    \* processes 1..nforked have been created
  lifespan, age, prio, prio_orig, status,   \* struct process, per process
  list,       \* list[n] = [next, prev]: the list_head of node n
  owner,      \* owner[r]: resources[r].owner
  want,       \* want[p]: the resource p was refused and still asks for
  phase,      \* position of the tick loop: "sched", "run" or "rel"
  fault,      \* "none", or how the program died
  call        \* the latest call: [op, rid, cur, ret], and the queues it
              \* found: rq (readyqueue) and wq (the wait queue of rid)

vars == <<sched, workload, current, nforked, lifespan, age, prio, prio_orig,
          status, list, owner, want, phase, fault, call>>

\* --------------------------------------------------- list_head primitives
\* __list_add(new, head->prev, head), one pointer store after the other
list_add_tail(L, new, head) ==
  LET prev == L[head].prev
      L1 == [L EXCEPT ![head].prev = new]
      L2 == [L1 EXCEPT ![new].next = head]
      L3 == [L2 EXCEPT ![new].prev = prev]
  IN [L3 EXCEPT ![prev].next = new]

\* __list_del(entry->prev, entry->next); INIT_LIST_HEAD(entry)
list_del_init(L, entry) ==
  LET prev == L[entry].prev
      next == L[entry].next
      L1 == [L EXCEPT ![next].prev = prev]
      L2 == [L1 EXCEPT ![prev].next = next]
  IN [L2 EXCEPT ![entry] = [next |-> entry, prev |-> entry]]

list_empty(L, head) == L[head].next = head

list_first_entry(L, head) == L[head].next

InSeq(x, s) == \E i \in 1..Len(s) : s[i] = x

\* list_for_each_entry: the nodes visited from head->next until head comes
\* round again.  ok is FALSE when the walk meets another queue's head (which
\* the loop would read as a process) or a node a second time (the loop
\* never ends).
RECURSIVE list_walk(_, _, _, _)
list_walk(L, head, pos, seen) ==
  IF pos = head THEN [ok |-> TRUE, seq |-> seen]
  ELSE IF pos \notin Procs \/ InSeq(pos, seen) THEN [ok |-> FALSE, seq |-> seen]
  ELSE list_walk(L, head, L[pos].next, Append(seen, pos))

list_for_each_entry(L, head) == list_walk(L, head, L[head].next, <<>>)

\* --------------------------------------------------- results of a call
\* What a policy function leaves behind: its return value, the fields it
\* may have written, and how it died if it did.
Ret(r, L) ==
  [ret |-> r, list |-> L, status |-> status, prio |-> prio, owner |-> owner,
   fault |-> "none"]

Fault(f, L, st, pr, ow) ==
  [ret |-> NULL, list |-> L, status |-> st, prio |-> pr, owner |-> ow,
   fault |-> f]

\* a list_del_init(&next->list) and return next, where next was read from a
\* list: a head read as a process is a wild pointer
Pick(next, L) ==
  IF next \in Procs THEN Ret(next, list_del_init(L, next))
  ELSE Fault("corrupt", L, status, prio, owner)

\* ------------------------------------------------------------------ FCFS
fcfs_acquire(r) ==
  IF owner[r] = NULL
  THEN [Ret(true, list) EXCEPT !.owner = [owner EXCEPT ![r] = current]]
  ELSE [Ret(false, list_add_tail(list, current, waitqueue(r))) EXCEPT
          !.status = [status EXCEPT ![current] = PROCESS_BLOCKED]]

\* fcfs_release waking the waiter that came last (list_last_entry)
fcfs_release_wakes_last(r) ==
  IF owner[r] # current
  THEN Fault("assert", list, status, prio, owner)
  ELSE LET ow == [owner EXCEPT ![r] = NULL] IN
    IF ~list_empty(list, waitqueue(r))
    THEN LET waiter == list[waitqueue(r)].prev IN
      IF waiter \notin Procs THEN Fault("corrupt", list, status, prio, ow)
      ELSE IF status[waiter] # PROCESS_BLOCKED
      THEN Fault("assert", list, status, prio, ow)
      ELSE [Ret(NULL, list_add_tail(list_del_init(list, waiter), waiter,
                                    readyqueue)) EXCEPT
              !.status = [status EXCEPT ![waiter] = PROCESS_READY],
              !.owner = ow]
    ELSE [Ret(NULL, list) EXCEPT !.owner = ow]

fcfs_release(r) ==
  IF owner[r] # current
  THEN Fault("assert", list, status, prio, owner)
  ELSE LET ow == [owner EXCEPT ![r] = NULL] IN
    IF ~list_empty(list, waitqueue(r))
    THEN LET waiter == list_first_entry(list, waitqueue(r)) IN
      IF waiter \notin Procs THEN Fault("corrupt", list, status, prio, ow)
      ELSE IF status[waiter] # PROCESS_BLOCKED
      THEN Fault("assert", list, status, prio, ow)
      ELSE [Ret(NULL, list_add_tail(list_del_init(list, waiter), waiter,
                                    readyqueue)) EXCEPT
              !.status = [status EXCEPT ![waiter] = PROCESS_READY],
              !.owner = ow]
    ELSE [Ret(NULL, list) EXCEPT !.owner = ow]

fcfs_pick_next ==
  IF ~list_empty(list, readyqueue)
  THEN Pick(list_first_entry(list, readyqueue), list)
  ELSE Ret(NULL, list)

\* fcfs_schedule without the "age < lifespan" test
fcfs_schedule_keeps_current ==
  IF current = NULL \/ status[current] = PROCESS_BLOCKED THEN fcfs_pick_next
  ELSE Ret(current, list)

fcfs_schedule ==
  IF current = NULL \/ status[current] = PROCESS_BLOCKED THEN fcfs_pick_next
  ELSE IF age[current] < lifespan[current] THEN Ret(current, list)
  ELSE fcfs_pick_next

\* --------------------------------------------------- scans of a queue
\* The loops "if (!next) next = p; else if (key(p) < key(next)) next = p":
\* the first entry with the least key.
RECURSIVE scan_lt(_, _, _, _)
scan_lt(seq, i, next, key) ==
  IF i > Len(seq) THEN next
  ELSE scan_lt(seq, i + 1,
               IF next = NULL \/ key[seq[i]] < key[next] THEN seq[i] ELSE next,
               key)

\* The same with ">": the first entry with the greatest key.
RECURSIVE scan_gt(_, _, _, _)
scan_gt(seq, i, next, key) ==
  IF i > Len(seq) THEN next
  ELSE scan_gt(seq, i + 1,
               IF next = NULL \/ key[seq[i]] > key[next] THEN seq[i] ELSE next,
               key)

\* lifespan - age
remaining == [p \in Procs |-> lifespan[p] - age[p]]

\* current->age read through a NULL current: the outcome is left to the
\* caller (a crash, or whatever the wild read makes of the comparison: both
\* branches return NULL)
NullCurrent == Fault("null", list, status, prio, owner)

\* the "else" branch the schedule functions share when readyqueue is empty
continue_current ==
  IF current = NULL THEN NullCurrent
  ELSE IF age[current] < lifespan[current] THEN Ret(current, list)
  ELSE Ret(NULL, list)

\* ------------------------------------------------------------------- SJF
\* sjf_schedule's pick_next without the scan: the head of readyqueue
sjf_pick_next_head ==
  IF ~list_empty(list, readyqueue)
  THEN Pick(list_first_entry(list, readyqueue), list)
  ELSE Ret(NULL, list)

sjf_pick_next ==
  IF ~list_empty(list, readyqueue)
  THEN LET w == list_for_each_entry(list, readyqueue) IN
    IF ~w.ok THEN Fault("corrupt", list, status, prio, owner)
    ELSE Pick(scan_lt(w.seq, 1, NULL, lifespan), list)
  ELSE Ret(NULL, list)

sjf_schedule ==
  IF current = NULL \/ status[current] = PROCESS_BLOCKED THEN sjf_pick_next
  ELSE IF age[current] < lifespan[current] THEN Ret(current, list)
  ELSE sjf_pick_next

\* ------------------------------------------------------------------ STCF
stcf_schedule ==
  IF ~list_empty(list, readyqueue)
  THEN LET w == list_for_each_entry(list, readyqueue) IN
    IF ~w.ok THEN Fault("corrupt", list, status, prio, owner)
    ELSE LET next == scan_lt(w.seq, 1, NULL, remaining) IN
      IF current = NULL THEN Pick(next, list)
      ELSE IF lifespan[current] # age[current]
      THEN IF remaining[current] < remaining[next]
           THEN Pick(current, list)
           ELSE Pick(next, list_add_tail(list, current, readyqueue))
      ELSE Pick(next, list)
  ELSE continue_current

\* ----------------------------------------------------------- Round-robin
\* rr_schedule that lets an unfinished current go on instead of rotating
rr_schedule_keeps_current ==
  IF current # NULL /\ lifespan[current] # age[current] THEN Ret(current, list)
  ELSE IF ~list_empty(list, readyqueue)
  THEN Pick(list_first_entry(list, readyqueue), list)
  ELSE Ret(NULL, list)

rr_schedule ==
  IF ~list_empty(list, readyqueue)
  THEN LET next == list_first_entry(list, readyqueue) IN
    IF next \notin Procs THEN Fault("corrupt", list, status, prio, owner)
    ELSE LET L1 == list_del_init(list, next) IN
      IF current # NULL /\ lifespan[current] # age[current]
      THEN Ret(next, list_add_tail(L1, current, readyqueue))
      ELSE Ret(next, L1)
  ELSE continue_current

\* -------------------------------------------------------------- Priority
prio_acquire(r) ==
  IF owner[r] = NULL
  THEN [Ret(true, list) EXCEPT !.owner = [owner EXCEPT ![r] = current]]
  ELSE [Ret(false, list_add_tail(list_del_init(list, current), current,
                                 waitqueue(r))) EXCEPT
          !.status = [status EXCEPT ![current] = PROCESS_BLOCKED]]

\* The tail prio_release, pcp_release and pip_release share once the owner
\* is cleared: the first waiter of the greatest prio in r's wait queue is
\* made READY and moved to the tail of readyqueue.
\* wake_waiter without the scan: the waiter that came first
wake_waiter_first(r, pr, ow) ==
  IF ~list_empty(list, waitqueue(r))
  THEN LET waiter == list_first_entry(list, waitqueue(r)) IN
    IF waiter \notin Procs THEN Fault("corrupt", list, status, pr, ow)
    ELSE IF status[waiter] # PROCESS_BLOCKED
    THEN Fault("assert", list, status, pr, ow)
    ELSE [ret |-> NULL,
          list |-> list_add_tail(list_del_init(list, waiter), waiter,
                                 readyqueue),
          status |-> [status EXCEPT ![waiter] = PROCESS_READY],
          prio |-> pr, owner |-> ow, fault |-> "none"]
  ELSE [ret |-> NULL, list |-> list, status |-> status, prio |-> pr,
        owner |-> ow, fault |-> "none"]

wake_waiter(r, pr, ow) ==
  IF ~list_empty(list, waitqueue(r))
  THEN LET w == list_for_each_entry(list, waitqueue(r)) IN
    IF ~w.ok THEN Fault("corrupt", list, status, pr, ow)
    ELSE LET waiter == scan_gt(w.seq, 1, NULL, pr) IN
      IF status[waiter] # PROCESS_BLOCKED
      THEN Fault("assert", list, status, pr, ow)
      ELSE [ret |-> NULL,
            list |-> list_add_tail(list_del_init(list, waiter), waiter,
                                   readyqueue),
            status |-> [status EXCEPT ![waiter] = PROCESS_READY],
            prio |-> pr, owner |-> ow, fault |-> "none"]
  ELSE [ret |-> NULL, list |-> list, status |-> status, prio |-> pr,
        owner |-> ow, fault |-> "none"]

prio_release(r) ==
  IF owner[r] # current
  THEN Fault("assert", list, status, prio, owner)
  ELSE wake_waiter(r, prio, [owner EXCEPT ![r] = NULL])

\* "if (p->prio > next->prio && p->status == PROCESS_READY) next = p"
RECURSIVE prio_scan(_, _, _)
prio_scan(seq, i, next) ==
  IF i > Len(seq) THEN next
  ELSE prio_scan(seq, i + 1,
                 IF next = NULL
                    \/ (prio[seq[i]] > prio[next]
                        /\ status[seq[i]] = PROCESS_READY)
                 THEN seq[i] ELSE next)

\* prio_schedule without the scan: next is the head of readyqueue
prio_schedule_picks_head ==
  IF ~list_empty(list, readyqueue)
  THEN LET w == list_for_each_entry(list, readyqueue) IN
    IF ~w.ok THEN Fault("corrupt", list, status, prio, owner)
    ELSE LET next == list_first_entry(list, readyqueue) IN
      IF current = NULL \/ age[current] = lifespan[current]
      THEN Pick(next, list)
      ELSE IF status[current] # PROCESS_BLOCKED
      THEN IF prio[current] > prio[next] THEN Ret(current, list)
           ELSE IF age[current] # lifespan[current]
           THEN Pick(next, list_add_tail(list, current, readyqueue))
           ELSE Pick(next, list)
      ELSE Pick(next, list)
  ELSE continue_current

prio_schedule ==
  IF ~list_empty(list, readyqueue)
  THEN LET w == list_for_each_entry(list, readyqueue) IN
    IF ~w.ok THEN Fault("corrupt", list, status, prio, owner)
    ELSE LET next == prio_scan(w.seq, 1, NULL) IN
      IF current = NULL \/ age[current] = lifespan[current]
      THEN Pick(next, list)
      ELSE IF status[current] # PROCESS_BLOCKED
      THEN IF prio[current] > prio[next] THEN Ret(current, list)
           ELSE IF age[current] # lifespan[current]
           THEN Pick(next, list_add_tail(list, current, readyqueue))
           ELSE Pick(next, list)
      ELSE Pick(next, list)
  ELSE continue_current

\* ------------------------------------------------------ Priority + aging
pa_acquire(r) ==
  IF owner[r] = NULL
  THEN [Ret(true, list) EXCEPT !.owner = [owner EXCEPT ![r] = current]]
  ELSE IF prio[current] < prio[owner[r]]
  THEN [Ret(false, list_add_tail(list, current, waitqueue(r))) EXCEPT
          !.status = [status EXCEPT ![current] = PROCESS_BLOCKED]]
  ELSE [Ret(true, list_add_tail(list, owner[r], waitqueue(r))) EXCEPT
          !.status = [status EXCEPT ![owner[r]] = PROCESS_BLOCKED],
          !.owner = [owner EXCEPT ![r] = current]]

\* The scan of pa_release walks readyqueue, not r's wait queue.
pa_release(r) ==
  IF owner[r] # current
  THEN Fault("assert", list, status, prio, owner)
  ELSE LET ow == [owner EXCEPT ![r] = NULL] IN
    IF ~list_empty(list, waitqueue(r))
    THEN LET w == list_for_each_entry(list, readyqueue) IN
      IF ~w.ok THEN Fault("corrupt", list, status, prio, ow)
      ELSE LET waiter == scan_gt(w.seq, 1, NULL, prio) IN
        IF waiter = NULL THEN Fault("segv", list, status, prio, ow)
        ELSE IF status[waiter] # PROCESS_BLOCKED
        THEN Fault("assert", list, status, prio, ow)
        ELSE [Ret(NULL, list_add_tail(list_del_init(list, waiter), waiter,
                                      readyqueue)) EXCEPT
                !.status = [status EXCEPT ![waiter] = PROCESS_READY],
                !.owner = ow]
    ELSE [Ret(NULL, list) EXCEPT !.owner = ow]

\* The loop of pa_schedule: every entry below MAX_PRIO gains one, and next
\* is the first entry of the greatest (already raised) prio.
RECURSIVE pa_scan(_, _, _, _)
pa_scan(seq, i, next, pr) ==
  IF i > Len(seq) THEN [next |-> next, prio |-> pr]
  ELSE LET p == seq[i]
           pr1 == IF pr[p] < MAX_PRIO THEN [pr EXCEPT ![p] = pr[p] + 1] ELSE pr
       IN pa_scan(seq, i + 1,
                  IF next = NULL \/ pr1[p] > pr1[next] THEN p ELSE next, pr1)

pa_pick_next ==
  IF ~list_empty(list, readyqueue)
  THEN LET w == list_for_each_entry(list, readyqueue) IN
    IF ~w.ok THEN Fault("corrupt", list, status, prio, owner)
    ELSE Pick(scan_gt(w.seq, 1, NULL, prio), list)
  ELSE Ret(NULL, list)

\* pa_schedule without the list_add_tail of the current it displaces
pa_schedule_drops_current ==
  IF current = NULL \/ status[current] = PROCESS_BLOCKED THEN pa_pick_next
  ELSE IF ~list_empty(list, readyqueue)
  THEN LET pr0 == [prio EXCEPT ![current] = prio_orig[current]]
           w == list_for_each_entry(list, readyqueue)
           s == pa_scan(w.seq, 1, NULL, pr0)
       IN
    IF ~w.ok THEN Fault("corrupt", list, status, s.prio, owner)
    ELSE IF age[current] < lifespan[current]
    THEN IF s.prio[s.next] < s.prio[current]
         THEN [Ret(current, list) EXCEPT !.prio = s.prio]
         ELSE [Pick(s.next, list) EXCEPT !.prio = s.prio]
    ELSE [Pick(s.next, list) EXCEPT !.prio = s.prio]
  ELSE IF age[current] < lifespan[current] THEN Ret(current, list)
  ELSE Ret(NULL, list)

pa_schedule ==
  IF current = NULL \/ status[current] = PROCESS_BLOCKED THEN pa_pick_next
  ELSE IF ~list_empty(list, readyqueue)
  THEN LET pr0 == [prio EXCEPT ![current] = prio_orig[current]]
           w == list_for_each_entry(list, readyqueue)
           s == pa_scan(w.seq, 1, NULL, pr0)
       IN
    IF ~w.ok THEN Fault("corrupt", list, status, s.prio, owner)
    ELSE IF age[current] < lifespan[current]
    THEN IF s.prio[s.next] < s.prio[current]
         THEN [Ret(current, list) EXCEPT !.prio = s.prio]
         ELSE [Pick(s.next, list_add_tail(list, current, readyqueue))
                 EXCEPT !.prio = s.prio]
    ELSE [Pick(s.next, list) EXCEPT !.prio = s.prio]
  ELSE IF age[current] < lifespan[current] THEN Ret(current, list)
  ELSE Ret(NULL, list)

\* -------------------------------------------------------- Priority + PCP
pcp_acquire(r) ==
  IF owner[r] = NULL
  THEN [Ret(true, list) EXCEPT
          !.owner = [owner EXCEPT ![r] = current],
          !.prio = [prio EXCEPT ![current] = MAX_PRIO]]
  ELSE [Ret(false, list_add_tail(list_del_init(list, current), current,
                                 waitqueue(r))) EXCEPT
          !.status = [status EXCEPT ![current] = PROCESS_BLOCKED]]

\* r->owner->prio is written before the assert
pcp_release(r) ==
  IF owner[r] = NULL THEN Fault("segv", list, status, prio, owner)
  ELSE LET pr == [prio EXCEPT ![owner[r]] = prio_orig[owner[r]]] IN
    IF owner[r] # current THEN Fault("assert", list, status, pr, owner)
    ELSE wake_waiter(r, pr, [owner EXCEPT ![r] = NULL])

pcp_schedule ==
  IF ~list_empty(list, readyqueue)
  THEN LET w == list_for_each_entry(list, readyqueue) IN
    IF ~w.ok THEN Fault("corrupt", list, status, prio, owner)
    ELSE LET next == scan_gt(w.seq, 1, NULL, prio) IN
      IF current = NULL THEN Pick(next, list)
      ELSE IF age[current] < lifespan[current]
      THEN IF prio[current] <= prio[next]
           THEN IF status[current] # PROCESS_BLOCKED
                THEN Pick(next, list_add_tail(list, current, readyqueue))
                ELSE Pick(next, list)
           ELSE Ret(current, list)
      ELSE Pick(next, list)
  ELSE continue_current

\* -------------------------------------------------------- Priority + PIP
pip_acquire(r) ==
  IF owner[r] = NULL
  THEN [Ret(true, list) EXCEPT !.owner = [owner EXCEPT ![r] = current]]
  ELSE [Ret(false, list_add_tail(list_del_init(list, current), current,
                                 waitqueue(r))) EXCEPT
          !.status = [status EXCEPT ![current] = PROCESS_BLOCKED],
          !.prio = IF prio[current] > prio[owner[r]]
                   THEN [prio EXCEPT ![owner[r]] = prio[current]]
                   ELSE prio]

\* pip_release without "r->owner = NULL"
pip_release_keeps_owner(r) ==
  IF owner[r] # current
  THEN Fault("assert", list, status, prio, owner)
  ELSE wake_waiter(r, [prio EXCEPT ![current] = prio_orig[current]], owner)

pip_release(r) ==
  IF owner[r] # current
  THEN Fault("assert", list, status, prio, owner)
  ELSE wake_waiter(r, [prio EXCEPT ![current] = prio_orig[current]],
                   [owner EXCEPT ![r] = NULL])

pip_schedule ==
  IF ~list_empty(list, readyqueue)
  THEN LET w == list_for_each_entry(list, readyqueue) IN
    IF ~w.ok THEN Fault("corrupt", list, status, prio, owner)
    ELSE LET next == scan_gt(w.seq, 1, NULL, prio) IN
      IF current = NULL THEN Pick(next, list)
      ELSE IF age[current] < lifespan[current]
      THEN IF prio[current] <= prio[next]
           THEN IF status[current] # PROCESS_BLOCKED
                THEN Pick(next, list_add_tail(list, current, readyqueue))
                ELSE Pick(next, list)
           ELSE IF status[current] = PROCESS_BLOCKED THEN Pick(next, list)
                ELSE Ret(current, list)
      ELSE Pick(next, list)
  ELSE continue_current

\* ------------------------------------------- struct scheduler (dispatch)
policy_schedule ==
  CASE sched = "fcfs" -> fcfs_schedule
    [] sched = "sjf" -> sjf_schedule
    [] sched = "stcf" -> stcf_schedule
    [] sched = "rr" -> rr_schedule
    [] sched = "prio" -> prio_schedule
    [] sched = "pa" -> pa_schedule
    [] sched = "pcp" -> pcp_schedule
    [] sched = "pip" -> pip_schedule

policy_acquire(r) ==
  CASE sched \in {"fcfs", "sjf", "stcf", "rr"} -> fcfs_acquire(r)
    [] sched = "prio" -> prio_acquire(r)
    [] sched = "pa" -> pa_acquire(r)
    [] sched = "pcp" -> pcp_acquire(r)
    [] sched = "pip" -> pip_acquire(r)

policy_release(r) ==
  CASE sched \in {"fcfs", "sjf", "stcf", "rr"} -> fcfs_release(r)
    [] sched = "prio" -> prio_release(r)
    [] sched = "pa" -> pa_release(r)
    [] sched = "pcp" -> pcp_release(r)
    [] sched = "pip" -> pip_release(r)

\* ------------------------------------------------ the tick loop (driver)
Forked == 1..nforked

\* the processes of queue h in list order
Queue(L, h) == list_for_each_entry(L, h).seq

\* what the driver does to the status fields once schedule has returned
\* next: the process that ran is no longer RUNNING, the one to run is
after_schedule(st, prev, next) ==
  LET st1 == IF prev # NULL /\ st[prev] = PROCESS_RUNNING
             THEN [st EXCEPT ![prev] = PROCESS_READY] ELSE st
  IN IF next # NULL THEN [st1 EXCEPT ![next] = PROCESS_RUNNING] ELSE st1

\* a process gives back what it holds in the tick it completes
TickDone ==
  current # NULL /\ age[current] = lifespan[current]
    => \A r \in Res : owner[r] # current

\* the state after construction, whatever the policy and the workload
Start ==
  /\ current = NULL
  /\ nforked = 0
  /\ lifespan = [p \in Procs |-> 0]
  /\ age = [p \in Procs |-> 0]
  /\ prio = [p \in Procs |-> 0]
  /\ prio_orig = [p \in Procs |-> 0]
  /\ status = [p \in Procs |-> PROCESS_READY]
  /\ list = [n \in Nodes |-> [next |-> n, prev |-> n]]
  /\ owner = [r \in Res |-> NULL]
  /\ want = [p \in Procs |-> NULL]
  /\ phase = "sched"
  /\ fault = "none"
  /\ call = [op |-> "init", rid |-> 0, cur |-> NULL, ret |-> NULL,
             rq |-> <<>>, wq |-> <<>>]

Init ==
  /\ sched \in Policies
  /\ workload = [nproc |-> NPROC, res |-> Res, prios |-> 0..MAX_PRIO,
                 lifespans |-> 1..MaxLifespan]
  /\ Start

\* a new process, the next pid, joins the tail of readyqueue
Fork ==
  /\ fault = "none"
  /\ phase \in {"sched", "rel"}
  /\ TickDone
  /\ nforked < workload.nproc
  /\ \E l \in workload.lifespans, pr \in workload.prios :
       LET p == nforked + 1 IN
       /\ nforked' = p
       /\ lifespan' = [lifespan EXCEPT ![p] = l]
       /\ prio' = [prio EXCEPT ![p] = pr]
       /\ prio_orig' = [prio_orig EXCEPT ![p] = pr]
       /\ list' = list_add_tail(list, p, readyqueue)
       /\ call' = [op |-> "fork", rid |-> 0, cur |-> current, ret |-> p,
                   rq |-> <<>>, wq |-> <<>>]
  /\ phase' = "sched"
  /\ UNCHANGED <<sched, workload, current, age, status, owner, want, fault>>

\* current = sched->schedule(); the loop ends, instead, once nothing runs,
\* nothing is ready and nothing is left to fork
Schedule ==
  /\ fault = "none"
  /\ phase \in {"sched", "rel"}
  /\ TickDone
  /\ ~(current = NULL /\ list_empty(list, readyqueue)
       /\ nforked = workload.nproc)
  /\ LET res == policy_schedule IN
     \E f \in (IF res.fault = "null" THEN {"segv", "none"} ELSE {res.fault}) :
       /\ fault' = f
       /\ list' = res.list
       /\ prio' = res.prio
       /\ owner' = res.owner
       /\ call' = [op |-> "schedule", rid |-> 0, cur |-> current,
                   ret |-> res.ret, rq |-> Queue(list, readyqueue),
                   wq |-> <<>>]
       /\ IF f = "none"
          THEN /\ current' = res.ret
               /\ status' = after_schedule(res.status, current, res.ret)
               /\ phase' = IF res.ret = NULL THEN "sched" ELSE "run"
          ELSE /\ status' = res.status
               /\ UNCHANGED <<current, phase>>
  /\ UNCHANGED <<sched, workload, nforked, lifespan, age, prio_orig, want>>

\* sched->acquire(r) by the running process, before it makes progress; a
\* process that was refused r asks for r again when it next runs
Acquire(r) ==
  /\ fault = "none"
  /\ phase = "run"
  /\ r \in workload.res
  /\ owner[r] # current
  /\ want[current] \in {NULL, r}
  /\ LET res == policy_acquire(r) IN
       /\ list' = res.list
       /\ status' = res.status
       /\ prio' = res.prio
       /\ owner' = res.owner
       /\ call' = [op |-> "acquire", rid |-> r, cur |-> current,
                   ret |-> res.ret, rq |-> Queue(list, readyqueue),
                   wq |-> Queue(list, waitqueue(r))]
       /\ phase' = IF res.ret = true THEN "run" ELSE "sched"
       /\ want' = [want EXCEPT ![current] =
                                IF res.ret = true THEN NULL ELSE r]
  /\ UNCHANGED <<sched, workload, current, nforked, lifespan, age, prio_orig,
                 fault>>

\* the running process, holding all it asked for, makes one tick of progress
Run ==
  /\ fault = "none"
  /\ phase = "run"
  /\ want[current] = NULL
  /\ age[current] < lifespan[current]
  /\ age' = [age EXCEPT ![current] = age[current] + 1]
  /\ phase' = "rel"
  /\ call' = [op |-> "run", rid |-> 0, cur |-> current, ret |-> current,
              rq |-> <<>>, wq |-> <<>>]
  /\ UNCHANGED <<sched, workload, current, nforked, lifespan, prio, prio_orig,
                 status, list, owner, want, fault>>

\* sched->release(r) by the process that just ran
Release(r) ==
  /\ fault = "none"
  /\ phase = "rel"
  /\ r \in workload.res
  /\ LET res == policy_release(r) IN
       /\ fault' = res.fault
       /\ list' = res.list
       /\ status' = res.status
       /\ prio' = res.prio
       /\ owner' = res.owner
       /\ call' = [op |-> "release", rid |-> r, cur |-> current,
                   ret |-> NULL, rq |-> Queue(list, readyqueue),
                   wq |-> Queue(list, waitqueue(r))]
  /\ UNCHANGED <<sched, workload, current, nforked, lifespan, age, prio_orig,
                 want, phase>>

Next ==
  \/ Fork
  \/ Schedule
  \/ \E r \in Res : Acquire(r)
  \/ Run
  \/ \E r \in Res : Release(r)

Spec == Init /\ [][Next]_vars

\* the tick loop for processes that ask for no resource
NextNoResource ==
  \/ Fork
  \/ Schedule
  \/ Run

\* Round-robin, three processes, no resource requests
InitRR ==
  /\ sched = "rr"
  /\ workload = [nproc |-> MaxProcs, res |-> {}, prios |-> {0},
                 lifespans |-> 1..MaxLifespan]
  /\ Start

SpecRR == InitRR /\ [][NextNoResource]_vars

\* Priority + aging, three processes of the lowest or the highest priority
\* and of lifespan MaxLifespan (each has to be scheduled MaxLifespan
\* times), no resource requests.  The tick loop goes on calling schedule
\* and running what it returns for as long as a process is left: weak
\* fairness of both steps.
InitPA ==
  /\ sched = "pa"
  /\ workload = [nproc |-> MaxProcs, res |-> {}, prios |-> {0, MAX_PRIO},
                 lifespans |-> {MaxLifespan}]
  /\ Start

SpecPA ==
  /\ InitPA
  /\ [][NextNoResource]_vars
  /\ WF_vars(Schedule)
  /\ WF_vars(Run)

\* Priority, PCP and PIP with three processes of lifespan MaxLifespan, so
\* that a resource can have two waiters
InitLocks ==
  /\ sched \in {"prio", "pcp", "pip"}
  /\ workload = [nproc |-> MaxProcs, res |-> Res, prios |-> 0..MAX_PRIO,
                 lifespans |-> {MaxLifespan}]
  /\ Start

SpecLocks == InitLocks /\ [][Next]_vars

\* the list_heads once the processes of seq have been appended, one after
\* the other, each to the tail of its queue place[p]
RECURSIVE enqueue(_, _, _)
enqueue(L, seq, place) ==
  IF seq = <<>> THEN L
  ELSE enqueue(list_add_tail(L, Head(seq), place[Head(seq)]), Tail(seq),
               place)

\* A run picked up at a tick where resources are contended: process 1 is
\* running and every other process is READY in readyqueue or BLOCKED in the
\* wait queue of a resource that another process owns.
Contended ==
  /\ current = 1
  /\ nforked = MaxProcs
  /\ \E ord \in {o \in [1..MaxProcs - 1 -> Procs \ {1}] :
                    \A i, j \in DOMAIN o : i # j => o[i] # o[j]},
        place \in [Procs \ {1} -> Heads] :
       /\ list = enqueue([n \in Nodes |-> [next |-> n, prev |-> n]], ord,
                         place)
       /\ status = [p \in Procs |->
                      IF p = 1 THEN PROCESS_RUNNING
                      ELSE IF place[p] = readyqueue THEN PROCESS_READY
                      ELSE PROCESS_BLOCKED]
       /\ want = [p \in Procs |->
                    IF p = 1 \/ place[p] = readyqueue THEN NULL
                    ELSE CHOOSE r \in Res : place[p] = waitqueue(r)]
       /\ owner \in [Res -> Procs \cup {NULL}]
       /\ \A r \in Res :
            /\ owner[r] \notin {NULL, 1} => place[owner[r]] # waitqueue(r)
            /\ (\E p \in Procs \ {1} : place[p] = waitqueue(r))
                 => owner[r] # NULL
  /\ lifespan \in [Procs -> 1..MaxLifespan]
  /\ age \in [Procs -> 0..MaxLifespan - 1]
  /\ \A p \in Procs : age[p] < lifespan[p]
  /\ prio = [p \in Procs |-> 0]
  /\ prio_orig = [p \in Procs |-> 0]
  /\ phase = "run"
  /\ fault = "none"
  /\ call = [op |-> "init", rid |-> 0, cur |-> NULL, ret |-> NULL,
             rq |-> <<>>, wq |-> <<>>]

\* FCFS and SJF, the policies that keep the baseline acquire/release and
\* never requeue a BLOCKED process, with three processes.  These policies
\* never read a priority, so every process has priority 0.  They never take
\* the processor from a process that holds a resource either, so a run
\* from Start never blocks anybody: the runs from Contended are the ones
\* in which fcfs_acquire and fcfs_release meet waiters.
InitBaseline ==
  /\ sched \in {"fcfs", "sjf"}
  /\ workload = [nproc |-> MaxProcs, res |-> Res, prios |-> {0},
                 lifespans |-> 1..MaxLifespan]
  /\ Start \/ Contended

SpecBaseline == InitBaseline /\ [][Next]_vars

\* ---------------------------------------------------------------- claims
SeqSet(s) == {s[i] : i \in 1..Len(s)}

\* the processes a walk of queue h visits in list L
Members(L, h) == SeqSet(Queue(L, h))

\* the queues process p is linked into
QueuesOf(L, p) == {h \in Heads : p \in Members(L, h)}

WaitQueues == {waitqueue(r) : r \in Res}

PolicyCalls == {"schedule", "acquire", "release"}

\* C1: under every policy a process is in at most one queue (readyqueue or
\* one resource's wait queue), the current process is in none, and no queue
\* lists a process twice (every queue is a proper ring through its head).
C1_OnePlace ==
  fault = "none" =>
    /\ \A h \in Heads : list_for_each_entry(list, h).ok
    /\ \A p \in Forked : Cardinality(QueuesOf(list, p)) <= 1
    /\ current # NULL /\ phase # "sched" => QueuesOf(list, current) = {}

\* C2: under every policy, between calls, a process is BLOCKED if and only
\* if it is a member of some resource's wait queue.
C2_BlockedIffWaiting ==
  fault = "none" =>
    /\ \A p \in Forked :
         status[p] = PROCESS_BLOCKED <=> QueuesOf(list, p) \cap WaitQueues # {}
    /\ \A p \in Members(list, readyqueue) : status[p] # PROCESS_BLOCKED

\* C3: under every policy schedule never returns a process that is BLOCKED
\* when it is called, and returns none when current is BLOCKED and
\* readyqueue is empty.
C3_BlockedNotScheduled ==
  [][call'.op = "schedule" /\ fault' = "none" =>
       /\ call'.ret # NULL => status[call'.ret] # PROCESS_BLOCKED
       /\ (current # NULL /\ status[current] = PROCESS_BLOCKED
           /\ list_empty(list, readyqueue)) => call'.ret = NULL]_vars

\* C4: under every policy a process whose age equals its lifespan is never
\* returned by schedule, and no schedule, acquire or release call links it
\* into readyqueue or a wait queue.
C4_CompleteNeverRequeued ==
  [][call'.op \in PolicyCalls =>
       \A p \in Forked : age[p] = lifespan[p] =>
         /\ ~(call'.op = "schedule" /\ fault' = "none" /\ call'.ret = p)
         /\ QueuesOf(list', p) \subseteq QueuesOf(list, p)]_vars

\* C4's case: schedule is called with a completed current while another
\* process is ready, and hands over to that process.
C4_Witness ==
  /\ call.op = "schedule" /\ fault = "none"
  /\ call.cur # NULL /\ age[call.cur] = lifespan[call.cur]
  /\ call.ret # NULL /\ call.ret # call.cur

\* C5: under each policy a schedule call with no current process and an
\* empty readyqueue returns none, without a fault and without changing any
\* process, queue or resource.
C5_IdleScheduleReturnsNone ==
  [][(call'.op = "schedule" /\ current = NULL
      /\ list_empty(list, readyqueue)) =>
       /\ fault' = "none"
       /\ call'.ret = NULL
       /\ UNCHANGED <<lifespan, age, prio, prio_orig, status, list, owner>>]_vars

\* C6: under every policy a release of a resource whose owner is not the
\* current process ends in an assertion failure with no owner, priority,
\* status or queue changed.
C6_ReleaseByNonOwnerRejected ==
  [][(call'.op = "release" /\ owner[call'.rid] # current) =>
       /\ fault' = "assert"
       /\ UNCHANGED <<owner, prio, status, list>>]_vars

\* C7: under every policy acquire(r) returns true exactly when current owns
\* r on return; when it returns false current is BLOCKED and is in r's wait
\* queue and in no other queue.
C7_AcquireResult ==
  call.op = "acquire" =>
    /\ call.ret = true <=> owner[call.rid] = call.cur
    /\ call.ret = false =>
         /\ status[call.cur] = PROCESS_BLOCKED
         /\ QueuesOf(list, call.cur) = {waitqueue(call.rid)}

\* C8: under every policy an owned resource keeps its owner until that
\* owner calls release on it; no acquire call moves it to another process.
C8_OwnerKeptUntilRelease ==
  [][\A r \in Res : owner[r] # NULL /\ owner'[r] # owner[r] =>
       /\ call'.op = "release"
       /\ call'.rid = r
       /\ call'.cur = owner[r]]_vars

\* C9 as stated: under PIP the waiter a release wakes is the resource's
\* owner when the release returns.
C9_WokenWaiterOwns ==
  [][(sched = "pip" /\ call'.op = "release" /\ fault' = "none") =>
       \A p \in Forked :
         status[p] = PROCESS_BLOCKED /\ status'[p] = PROCESS_READY =>
           owner'[call'.rid] = p]_vars

\* C9 amended: under PIP, when a release by the owner of a resource with
\* waiters returns, the resource has no owner and the woken waiter is READY
\* at the tail of readyqueue, out of the wait queue; a process becomes the
\* owner of a resource only by an acquire call of its own.
C9_WokenWaiterReady ==
  [][sched = "pip" =>
       /\ (call'.op = "release" /\ fault' = "none"
           /\ ~list_empty(list, waitqueue(call'.rid))) =>
            /\ owner'[call'.rid] = NULL
            /\ \E p \in Members(list, waitqueue(call'.rid)) :
                 /\ status[p] = PROCESS_BLOCKED /\ status'[p] = PROCESS_READY
                 /\ list'[readyqueue].prev = p
                 /\ QueuesOf(list', p) = {readyqueue}
                 /\ \A q \in Forked \ {p} : status'[q] = status[q]
       /\ \A r \in Res : owner'[r] # owner[r] /\ owner'[r] # NULL =>
            /\ call'.op = "acquire"
            /\ call'.rid = r
            /\ call'.cur = owner'[r]]_vars

\* C9's case: a PIP release has just woken a waiter
C9_Witness ==
  /\ sched = "pip" /\ call.op = "release" /\ fault = "none"
  /\ Len(call.wq) > 0
  /\ owner[call.rid] = NULL
  /\ list[readyqueue].prev \in SeqSet(call.wq)
  /\ status[list[readyqueue].prev] = PROCESS_READY

\* C10: under PIP the owner of a resource has at least the priority of
\* every process in that resource's wait queue.
C10_OwnerOutranksWaiters ==
  (sched = "pip" /\ fault = "none") =>
    \A r \in Res : owner[r] # NULL =>
      \A p \in Members(list, waitqueue(r)) : prio[owner[r]] >= prio[p]

\* C11: under PCP every process that owns at least one resource has
\* priority MAX_PRIO, from the granting acquire until it has released
\* every resource it holds.
C11_OwnerAtCeiling ==
  (sched = "pcp" /\ fault = "none") =>
    \A r \in Res : owner[r] # NULL => prio[owner[r]] = MAX_PRIO

\* C12: under PCP a schedule call whose current process owns a resource
\* (its priority at the ceiling), is unfinished and is not BLOCKED returns
\* current, whatever the priorities of the processes in readyqueue.
C12_CeilingHolderKeepsRunning ==
  [][(sched = "pcp" /\ call'.op = "schedule" /\ fault' = "none"
      /\ current # NULL /\ (\E r \in Res : owner[r] = current)
      /\ prio[current] = MAX_PRIO
      /\ age[current] < lifespan[current]
      /\ status[current] # PROCESS_BLOCKED) =>
       call'.ret = current]_vars

\* C13: under FCFS and SJF the processes blocked on one resource are woken
\* in the order in which they blocked: a refused acquire appends current
\* to the tail of the wait queue, and a release by the owner leaves the
\* resource without an owner and moves only the head of its wait queue, as
\* READY, to the tail of readyqueue; the other waiters keep their order.
C13_WaitersWokenInOrder ==
  [][(sched \in {"fcfs", "sjf"}) =>
       LET r == call'.rid
           wq == Queue(list, waitqueue(r))
           rq == Queue(list, readyqueue)
       IN
       /\ (call'.op = "acquire" /\ call'.ret = false) =>
            Queue(list', waitqueue(r)) = Append(wq, current)
       /\ (call'.op = "release" /\ owner[r] = current) =>
            /\ fault' = "none"
            /\ owner'[r] = NULL
            /\ \A h \in Heads : list_for_each_entry(list', h).ok
            /\ \A q \in Res \ {r} :
                 Queue(list', waitqueue(q)) = Queue(list, waitqueue(q))
            /\ IF wq = <<>>
               THEN /\ Queue(list', waitqueue(r)) = <<>>
                    /\ Queue(list', readyqueue) = rq
                    /\ status' = status
               ELSE /\ Queue(list', waitqueue(r)) = Tail(wq)
                    /\ Queue(list', readyqueue) = Append(rq, Head(wq))
                    /\ status' =
                         [status EXCEPT ![Head(wq)] = PROCESS_READY]]_vars

\* C13's case: a release found two waiters and woke the one that blocked
\* first; the other is still waiting
C13_Witness ==
  /\ sched \in {"fcfs", "sjf"} /\ call.op = "release" /\ fault = "none"
  /\ Len(call.wq) = 2
  /\ list[readyqueue].prev = call.wq[1]
  /\ status[call.wq[1]] = PROCESS_READY
  /\ Queue(list, waitqueue(call.rid)) = <<call.wq[2]>>

\* C14: under SJF schedule returns current, and leaves readyqueue alone,
\* whenever current is unfinished and not BLOCKED; otherwise it removes and
\* returns the readyqueue process of the least lifespan, the earliest in
\* queue order among equal minima, and leaves the rest of readyqueue in
\* order.
C14_ShortestJobFirst ==
  [][(sched = "sjf" /\ call'.op = "schedule") =>
       LET rq == Queue(list, readyqueue) IN
       /\ fault' = "none"
       /\ IF current # NULL /\ status[current] # PROCESS_BLOCKED
             /\ age[current] < lifespan[current]
          THEN call'.ret = current /\ Queue(list', readyqueue) = rq
          ELSE rq # <<>> =>
                 \E i \in 1..Len(rq) :
                   /\ call'.ret = rq[i]
                   /\ \A j \in 1..Len(rq) : lifespan[rq[i]] <= lifespan[rq[j]]
                   /\ \A j \in 1..(i - 1) : lifespan[rq[i]] < lifespan[rq[j]]
                   /\ Queue(list', readyqueue) =
                        SubSeq(rq, 1, i - 1) \o SubSeq(rq, i + 1, Len(rq))]_vars

\* C14's case: with nothing left to continue, schedule found three ready
\* processes, the last two of the same least lifespan, and took the second
C14_Witness ==
  /\ sched = "sjf" /\ call.op = "schedule" /\ fault = "none"
  /\ call.cur = NULL \/ age[call.cur] = lifespan[call.cur]
  /\ Len(call.rq) = 3
  /\ lifespan[call.rq[2]] < lifespan[call.rq[1]]
  /\ lifespan[call.rq[2]] = lifespan[call.rq[3]]
  /\ call.ret = call.rq[2]
  /\ Queue(list, readyqueue) = <<call.rq[1], call.rq[3]>>

\* C15: under STCF, with an unfinished, non-BLOCKED current and a non-empty
\* readyqueue, schedule returns current and leaves readyqueue unchanged
\* whenever current's remaining time is less than or equal to the smallest
\* remaining time in readyqueue; only a ready process of strictly smaller
\* remaining time is dequeued and returned, current going to the tail.
C15_TiesFavourIncumbent ==
  [][(sched = "stcf" /\ call'.op = "schedule" /\ current # NULL
      /\ status[current] # PROCESS_BLOCKED
      /\ age[current] < lifespan[current]
      /\ ~list_empty(list, readyqueue)) =>
       LET rq == Queue(list, readyqueue) IN
       /\ fault' = "none"
       /\ IF \A j \in 1..Len(rq) : remaining[current] <= remaining[rq[j]]
          THEN call'.ret = current /\ Queue(list', readyqueue) = rq
          ELSE \E i \in 1..Len(rq) :
                 /\ call'.ret = rq[i]
                 /\ \A j \in 1..Len(rq) : remaining[rq[i]] <= remaining[rq[j]]
                 /\ Queue(list', readyqueue) =
                      Append(SubSeq(rq, 1, i - 1) \o SubSeq(rq, i + 1, Len(rq)),
                             current)]_vars

\* C16: under Round-Robin with no resource requests a schedule call that
\* finds readyqueue non-empty returns its head and appends the unfinished
\* current to the tail; so no process is returned twice in a row while
\* another unfinished process exists (the process that ran the last tick
\* does not run the next one), and two processes of equal lifespan
\* alternate one tick each until both complete.
C16_Rotation ==
  [][(sched = "rr" /\ call'.op = "schedule") =>
       LET rq == Queue(list, readyqueue) IN
       /\ rq # <<>> =>
            /\ fault' = "none"
            /\ call'.ret = Head(rq)
            /\ Queue(list', readyqueue) =
                 IF current # NULL /\ age[current] < lifespan[current]
                 THEN Append(Tail(rq), current) ELSE Tail(rq)
       /\ (current # NULL
           /\ \E q \in Forked \ {current} : age[q] < lifespan[q]) =>
            /\ fault' = "none"
            /\ call'.ret \notin {NULL, current}]_vars

\* C16's case: two processes of equal lifespan have both run two ticks, in
\* turns, and schedule has just rotated them once more
C16_Witness ==
  /\ sched = "rr" /\ call.op = "schedule" /\ fault = "none"
  /\ nforked = 2 /\ lifespan[1] = lifespan[2]
  /\ age[1] = 2 /\ age[2] = 2
  /\ call.cur # NULL /\ call.ret # NULL /\ call.ret # call.cur
  /\ call.rq = <<call.ret>>
  /\ Queue(list, readyqueue) = <<call.cur>>

\* C17: under Priority + aging with no resource requests no process
\* starves: every process in readyqueue is eventually returned by schedule
\* (becomes current) and every forked process eventually reaches
\* age = lifespan, whatever the original priorities.
C17_NoStarvation ==
  \A p \in Procs :
    /\ (p \in Members(list, readyqueue)) ~> (current = p)
    /\ (p \in Forked) ~> (age[p] = lifespan[p])

\* C17's case: an unfinished current of original priority MAX_PRIO has just
\* been displaced by a process created with priority 0
C17_Witness ==
  /\ sched = "pa" /\ call.op = "schedule" /\ fault = "none"
  /\ call.cur # NULL /\ prio_orig[call.cur] = MAX_PRIO
  /\ age[call.cur] < lifespan[call.cur]
  /\ call.ret \notin {NULL, call.cur} /\ prio_orig[call.ret] = 0
  /\ current = call.ret

\* C18: under Priority + aging a release, by its owner, of a resource with
\* a non-empty wait queue completes without an assertion failure or fault
\* and moves exactly one process, the first of the greatest priority in
\* that resource's own wait queue, to readyqueue with status READY.
C18_ReleaseLikePriority ==
  [][(sched = "pa" /\ call'.op = "release" /\ owner[call'.rid] = current
      /\ ~list_empty(list, waitqueue(call'.rid))) =>
       LET wq == Queue(list, waitqueue(call'.rid))
           waiter == scan_gt(wq, 1, NULL, prio)
       IN
       /\ fault' = "none"
       /\ waiter \in Members(list', readyqueue)
       /\ status' = [status EXCEPT ![waiter] = PROCESS_READY]
       /\ \A p \in Forked \ {waiter} :
            QueuesOf(list', p) = QueuesOf(list, p)]_vars

C20_EqualPriorityKeepsCurrent ==
  [][(sched = "pip" /\ call'.op = "schedule" /\ current # NULL
      /\ age[current] < lifespan[current]
      /\ status[current] # PROCESS_BLOCKED
      /\ \A p \in Members(list, readyqueue) : prio[p] <= prio[current]) =>
       /\ fault' = "none"
       /\ call'.ret = current
       /\ Queue(list', readyqueue) = Queue(list, readyqueue)]_vars

\* C21: under Priority, PCP and PIP, whenever schedule returns a process,
\* that process's priority is greater than or equal to the priority of
\* every process that is in readyqueue when the call returns.
C21_ReturnedOutranksReady ==
  [][(sched \in {"prio", "pcp", "pip"} /\ call'.op = "schedule"
      /\ fault' = "none" /\ call'.ret # NULL) =>
       \A p \in Members(list', readyqueue) :
         prio'[call'.ret] >= prio'[p]]_vars

\* C21's case: schedule found two ready processes, the second of the
\* greater priority, and returned the second in place of an unfinished
\* current that it put behind the first
C21_Witness ==
  /\ sched \in {"prio", "pcp", "pip"} /\ call.op = "schedule"
  /\ fault = "none"
  /\ Len(call.rq) = 2
  /\ prio[call.rq[2]] > prio[call.rq[1]]
  /\ call.ret = call.rq[2]
  /\ call.cur \notin {NULL, call.ret}
  /\ Queue(list, readyqueue) = <<call.rq[1], call.cur>>

\* C22: under Priority + aging each schedule call made with a current
\* process that is present and not BLOCKED sets current's priority to its
\* priority_original and raises the priority of every readyqueue process
\* to min(priority + 1, MAX_PRIO); consequently every process has
\* priority_original <= priority <= MAX_PRIO in every reachable state.
C22_AgingStep ==
  [][/\ (sched = "pa" /\ call'.op = "schedule" /\ fault' = "none"
          /\ current # NULL /\ status[current] # PROCESS_BLOCKED) =>
           /\ prio'[current] = prio_orig[current]
           /\ \A p \in Members(list, readyqueue) :
                prio'[p] = IF prio[p] + 1 < MAX_PRIO THEN prio[p] + 1
                           ELSE MAX_PRIO
     /\ (sched = "pa" /\ fault' = "none") =>
          \A p \in 1..nforked' :
            prio_orig'[p] <= prio'[p] /\ prio'[p] <= MAX_PRIO]_vars

====
